---- MODULE Spec2Model ----
(***************************************************************************)
(* Least-latency routing of the glide LLM gateway                          *)
(* (pkg/routers/routing/least_latency.go): the per-model schedules, the    *)
(* warm-up cursor and the steps of LeastLatencyRouting.Next, driven by the *)
(* router's dispatch loop and by the latency trackers it feeds.            *)
(***************************************************************************)
EXTENDS Integers, Sequences, FiniteSets

\* ----------------------------------------------------- configuration, bounds
\* the configured models, in configured order, and the concurrent requests
Models == 1 .. 3
Procs == 1 .. 2
NumModels == Cardinality(Models)
\* Model.warm-up-samples and Model.latency-update-interval (in clock ticks), the
\* same for every model
WarmupSamples == 1
Interval == 1
\* the latencies a successful call may take
Latencies == {1, 2}
\* the clock stops at MaxTime, and at Horizon where only warmed-up models are
\* followed
MaxTime == 3
Horizon == 4
\* The tracker's sample counter is unbounded and the warm-up cursor a uint32 in
\* the program; the guards of Success and WarmAdd keep them within these, far
\* from the cursor's wrap at 2^32.
MaxCursor == WarmupSamples * NumModels
MaxSamples == WarmupSamples + 1

Nil == 0

VARIABLES
    healthy,    \* Model.healthy, per model
    count,      \* LatencyTracker.sample-count, per model
    avg,        \* LatencyTracker.avg, per model
    expireAt,   \* ModelSchedule.expireAt, per model (r.schedules is parallel to the models)
    warmupIdx,  \* LeastLatencyRouting.warmupIdx
    now,        \* the wall clock read by time.Now()
    pc,         \* per request: where its goroutine stands
    cold,       \* per request: coldSchedules of the running Next call
    idx,        \* per request: idx of the running Next call
    i,          \* per request: position of the range loop over r.schedules
    nxt,        \* per request: nextSchedule of the running Next call (Nil: nil)
    ret,        \* per request: the model the last Next call returned (Nil: nil)
    err,        \* per request: the error the last Next call returned
    t0,         \* per request: the clock when the running Next call began
    yielded,    \* per request: the models Next has yielded to it so far
    lastSel,    \* per model: the clock when Next last returned it (0: not since construction)
    startHealthy, \* per request: how many models were healthy when the request started
    chat,       \* the cohere client's Chat call: its inputs, its position, its results
    mgr,        \* the ServerManager: wait group, http server, Start and Shutdown calls
    picks,      \* per model: how often the warm-up branch returned it, where a run counts it
    sched       \* one ModelSchedule followed lock by lock: mu, expireAt, the Update calls

vars == <<healthy, count, avg, expireAt, warmupIdx, now,
          pc, cold, idx, i, nxt, ret, err, t0, yielded, lastSel, startHealthy, picks, chat, mgr, sched>>
\* what the routing code never touches
outside == <<chat, mgr, sched>>
shared == <<healthy, count, avg, expireAt, warmupIdx, now>>
locals == <<cold, idx, i, nxt>>

\* ------------------------------------------------------- latency tracker
\* LatencyTracker.warmed-up(): sample-count >= warmup-threshold
WarmedUp(m) == count[m] >= WarmupSamples

\* LatencyTracker.value(): the EWMA, 0 before the first sample
Value(m) == avg[m]

\* LatencyTracker.observe(x): avg <- decay*avg + (1-decay)*x with decay 1/2
\* in fixed point, x on the first sample
Ewma(a, n, x) == IF n = 0 THEN x ELSE (a + x) \div 2

\* ------------------------------------------------------------- schedules
\* ModelSchedule.Expired(): time.Now().After(s.expireAt), the clock reading t
ExpiredAt(m, t) == t > expireAt[m]
Expired(m) == ExpiredAt(m, now)

DeadlineWithoutClock(t) == Interval

DeadlineDoubled(t) == t + 2 * Interval

\* ModelSchedule.Update(): s.expireAt = time.Now().Add(LatencyUpdateInterval)
Deadline(t) == t + Interval

IsColdIgnoringHealth(m) == ~WarmedUp(m)

TouchAll(e, m, t) == [k \in Models |-> Deadline(t)]

\* schedule.Update() on the schedule of model m, the schedules being e
Touch(e, m, t) == [e EXCEPT ![m] = Deadline(t)]

\* getColdModelSchedules(): the healthy, not warmed-up models in r.schedules order
IsCold(m) == healthy[m] /\ ~WarmedUp(m)

RECURSIVE ColdFrom(_)
ColdFrom(m) ==
    IF m > NumModels THEN <<>>
    ELSE (IF IsCold(m) THEN <<m>> ELSE <<>>) \o ColdFrom(m + 1)

getColdModelSchedules == ColdFrom(1)

\* coldSchedules[idx % uint32(len(coldSchedules))]
WarmPickOffByOne(cs, k) == cs[((k + 1) % Len(cs)) + 1]

WarmPick(cs, k) == cs[(k % Len(cs)) + 1]

\* lines 115-118: an unavailable model is passed over
NeverUnavailable(s) == FALSE

Unavailable(s) == ~healthy[s]

LaterExpired(s, n) == Expired(s) /\ expireAt[s] > expireAt[n]

\* line 127: schedule.Expired() && schedule.ExpireAt().Before(nextSchedule.ExpireAt())
EarlierExpired(s, n) == Expired(s) /\ expireAt[s] < expireAt[n]

\* lines 134-135: neither expired and nextSchedule's latency is greater
FasterOrEqual(s, n) == ~Expired(s) /\ ~Expired(n) /\ Value(n) >= Value(s)

Faster(s, n) == ~Expired(s) /\ ~Expired(n) /\ Value(n) > Value(s)

\* ------------------------------------------- the gateway's other parts
\* no Chat call of the cohere client under way, no ServerManager constructed
NoChat == [pc |-> "none"]
NoManager == [pc |-> "none"]
NoSchedule == [made |-> FALSE]
Elsewhere == chat = NoChat /\ mgr = NoManager /\ sched = NoSchedule

\* --------------------------------------------------------------- initial
\* NewLeastLatencyRouting: one schedule per model, each touched; cursor 0.
RouterInit ==
    /\ healthy = [m \in Models |-> TRUE]
    /\ count = [m \in Models |-> 0]
    /\ avg = [m \in Models |-> 0]
    /\ now = 0
    /\ expireAt = [m \in Models |-> Deadline(0)]
    /\ warmupIdx = 0
    /\ pc = [p \in Procs |-> "idle"]
    /\ cold = [p \in Procs |-> <<>>]
    /\ idx = [p \in Procs |-> 0]
    /\ i = [p \in Procs |-> 0]
    /\ nxt = [p \in Procs |-> Nil]
    /\ ret = [p \in Procs |-> Nil]
    /\ err = [p \in Procs |-> "nil"]
    /\ t0 = [p \in Procs |-> 0]
    /\ yielded = [p \in Procs |-> {}]
    /\ lastSel = [m \in Models |-> 0]
    /\ startHealthy = [p \in Procs |-> 0]
    /\ picks = [m \in Models |-> 0]

Init == RouterInit /\ Elsewhere

\* ------------------------------------------------------------ Next, steps
InNext(p) == pc[p] \in {"getCold", "warmAdd", "warmUpdate", "scan127", "scan134", "finish"}
Quiet == \A p \in Procs : ~InNext(p)

\* the router obtains the iterator and asks for the first candidate
StartRequest(p) ==
    /\ pc[p] = "idle"
    /\ pc' = [pc EXCEPT ![p] = "getCold"]
    /\ startHealthy' = [startHealthy EXCEPT ![p] = Cardinality({m \in Models : healthy[m]})]
    /\ UNCHANGED <<shared, locals, ret, err, t0, lastSel, yielded, picks, outside>>

\* line 99-101
GetCold(p) ==
    /\ pc[p] = "getCold"
    /\ cold' = [cold EXCEPT ![p] = getColdModelSchedules]
    /\ t0' = [t0 EXCEPT ![p] = now]
    /\ IF Len(getColdModelSchedules) > 0
         THEN /\ pc' = [pc EXCEPT ![p] = "warmAdd"]
              /\ UNCHANGED <<i, nxt>>
         ELSE /\ pc' = [pc EXCEPT ![p] = "scan127"]
              /\ i' = [i EXCEPT ![p] = 1]
              /\ nxt' = [nxt EXCEPT ![p] = Nil]
    /\ UNCHANGED <<shared, idx, ret, err, yielded, lastSel, startHealthy, picks, outside>>

AtomicAddLost(c, d) == c

\* atomic.Uint32.Add: the new value, stored and returned in one indivisible step
AtomicAdd(c, d) == c + d

\* line 103: idx := r.warmupIdx.Add(1) - 1
WarmAdd(p) ==
    /\ pc[p] = "warmAdd"
    /\ warmupIdx < MaxCursor
    /\ idx' = [idx EXCEPT ![p] = AtomicAdd(warmupIdx, 1) - 1]
    /\ warmupIdx' = AtomicAdd(warmupIdx, 1)
    /\ pc' = [pc EXCEPT ![p] = "warmUpdate"]
    /\ UNCHANGED <<healthy, count, avg, expireAt, now, cold, i, nxt, ret, err, t0, lastSel, yielded,
                   startHealthy, picks, outside>>

\* what every return of Next leaves behind
Return(p, m, e) ==
    /\ ret' = [ret EXCEPT ![p] = m]
    /\ err' = [err EXCEPT ![p] = e]
    /\ yielded' = [yielded EXCEPT ![p] = IF m = Nil THEN @ ELSE @ \cup {m}]
    /\ pc' = [pc EXCEPT ![p] = IF m = Nil THEN "noModel" ELSE "dispatch"]
    /\ cold' = [cold EXCEPT ![p] = <<>>]
    /\ idx' = [idx EXCEPT ![p] = 0]
    /\ i' = [i EXCEPT ![p] = 0]
    /\ nxt' = [nxt EXCEPT ![p] = Nil]
    /\ t0' = [t0 EXCEPT ![p] = 0]
    /\ lastSel' = IF m = Nil THEN lastSel ELSE [lastSel EXCEPT ![m] = now]
    /\ UNCHANGED <<startHealthy, outside>>

\* lines 105-108
WarmReturn(p) ==
    /\ pc[p] = "warmUpdate"
    /\ LET m == WarmPick(cold[p], idx[p]) IN
         /\ expireAt' = Touch(expireAt, m, now)
         /\ Return(p, m, "nil")
    /\ UNCHANGED <<healthy, count, avg, warmupIdx, now>>

WarmUpdate(p) == WarmReturn(p) /\ UNCHANGED picks

\* the same step in a run that counts the models the warm-up branch returns
WarmUpdateCounted(p) ==
    /\ WarmReturn(p)
    /\ picks' = [picks EXCEPT ![WarmPick(cold[p], idx[p])] = @ + 1]

\* the loop advances to the next schedule, or leaves the loop
Advance(p) ==
    /\ i' = [i EXCEPT ![p] = @ + 1]
    /\ pc' = [pc EXCEPT ![p] = IF i[p] = NumModels THEN "finish" ELSE "scan127"]

\* lines 114-132 for the schedule at position i
Scan127(p) ==
    /\ pc[p] = "scan127"
    /\ LET s == i[p] IN
         IF Unavailable(s) THEN Advance(p) /\ UNCHANGED nxt
         ELSE IF nxt[p] = Nil THEN Advance(p) /\ nxt' = [nxt EXCEPT ![p] = s]
         ELSE IF EarlierExpired(s, nxt[p]) THEN Advance(p) /\ nxt' = [nxt EXCEPT ![p] = s]
         ELSE /\ pc' = [pc EXCEPT ![p] = "scan134"]
              /\ UNCHANGED <<i, nxt>>
    /\ UNCHANGED <<shared, cold, idx, ret, err, t0, lastSel, yielded, startHealthy, picks, outside>>

\* lines 134-137 for the schedule at position i
Scan134(p) ==
    /\ pc[p] = "scan134"
    /\ nxt' = [nxt EXCEPT ![p] = IF Faster(i[p], @) THEN i[p] ELSE @]
    /\ Advance(p)
    /\ UNCHANGED <<shared, cold, idx, ret, err, t0, lastSel, yielded, startHealthy, picks, outside>>

\* lines 140-146
Finish(p) ==
    /\ pc[p] = "finish"
    /\ IF nxt[p] # Nil
         THEN /\ expireAt' = Touch(expireAt, nxt[p], now)
              /\ Return(p, nxt[p], "nil")
         ELSE /\ UNCHANGED expireAt
              /\ Return(p, Nil, "ErrNoHealthyModels")
    /\ UNCHANGED <<healthy, count, avg, warmupIdx, now, picks>>

NextStep(p) ==
    \/ GetCold(p)
    \/ WarmAdd(p)
    \/ WarmUpdate(p)
    \/ Scan127(p)
    \/ Scan134(p)
    \/ Finish(p)

\* ------------------------------------------------- router dispatch loop
\* the request returns to its caller; its iterator and candidate are dropped
EndRequest(p) ==
    /\ pc' = [pc EXCEPT ![p] = "idle"]
    /\ ret' = [ret EXCEPT ![p] = Nil]
    /\ err' = [err EXCEPT ![p] = "nil"]
    /\ yielded' = [yielded EXCEPT ![p] = {}]
    /\ startHealthy' = [startHealthy EXCEPT ![p] = 0]
    /\ UNCHANGED <<picks, outside>>

\* the call succeeded: observe the latency, mark the model healthy, return
Success(p, x, cap) ==
    /\ pc[p] = "dispatch"
    /\ count[ret[p]] < cap
    /\ avg' = [avg EXCEPT ![ret[p]] = Ewma(@, count[ret[p]], x)]
    /\ count' = [count EXCEPT ![ret[p]] = @ + 1]
    /\ healthy' = [healthy EXCEPT ![ret[p]] = TRUE]
    /\ EndRequest(p)
    /\ UNCHANGED <<expireAt, warmupIdx, now, locals, t0, lastSel>>

\* transient-unavailable: mark the model unhealthy, ask for the next candidate
TransientFail(p) ==
    /\ pc[p] = "dispatch"
    /\ healthy' = [healthy EXCEPT ![ret[p]] = FALSE]
    /\ pc' = [pc EXCEPT ![p] = "getCold"]
    /\ UNCHANGED <<count, avg, expireAt, warmupIdx, now, locals, ret, err, t0, lastSel, yielded,
                   startHealthy, picks, outside>>

\* non-retryable, budget-exhausted or cancelled: return the error at once
Abort(p) ==
    /\ pc[p] = "dispatch"
    /\ EndRequest(p)
    /\ UNCHANGED <<shared, locals, t0, lastSel>>

\* the iterator has no candidate left: all-providers-failed
GiveUp(p) ==
    /\ pc[p] = "noModel"
    /\ EndRequest(p)
    /\ UNCHANGED <<shared, locals, t0, lastSel>>

\* ----------------------------------------------------------- environment
\* the background health check flips a model back to healthy
HealthCheck(m) ==
    /\ ~healthy[m]
    /\ healthy' = [healthy EXCEPT ![m] = TRUE]
    /\ UNCHANGED <<count, avg, expireAt, warmupIdx, now, pc, locals, ret, err, t0, lastSel, yielded,
                   startHealthy, picks, outside>>

TickTo(limit) ==
    /\ now < limit
    /\ now' = now + 1
    /\ UNCHANGED <<healthy, count, avg, expireAt, warmupIdx, pc, locals, ret, err, t0, lastSel, yielded,
                   startHealthy, picks, outside>>

Tick == TickTo(MaxTime)
TickLong == TickTo(Horizon)

\* ------------------------------------------ one schedule, lock by lock
\* the latency-update-intervals a model may be configured with: the field is a
\* duration, and nothing in NewSchedule or Update restricts it
Intervals == -1 .. (Interval + 1)

AddIgnoringClock(t, d) == d

\* time.Time.Add
Add(t, d) == t + d

\* time.Time.After: Expired() with the clock reading t
SchedExpired(t) == t > sched.expireAt

NotExclusive(p) == TRUE

\* sync.RWMutex.Lock grants the lock only while nobody holds it
Exclusive(p) == sched.mu = 0

\* a model with one of the intervals; its schedule not yet constructed
InitSchedule ==
    /\ RouterInit
    /\ chat = NoChat
    /\ mgr = NoManager
    /\ \E d \in Intervals :
          sched = [made |-> FALSE, interval |-> d, expireAt |-> 0, touched |-> 0, mu |-> 0,
                   upc |-> [p \in Procs |-> "idle"], t |-> [p \in Procs |-> 0]]

ScheduleStep == UNCHANGED <<healthy, count, avg, expireAt, warmupIdx, now, pc, locals, ret, err,
                            t0, lastSel, yielded, startHealthy, picks, chat, mgr>>

\* NewSchedule (lines 27-35): the struct, then Update() before anyone shares it
NewSchedule ==
    /\ ~sched.made
    /\ sched' = [sched EXCEPT !.made = TRUE, !.expireAt = Add(now, sched.interval),
                              !.touched = now]
    /\ ScheduleStep

\* a goroutine calls Update (lines 105, 141)
CallUpdate(p) ==
    /\ sched.made /\ sched.upc[p] = "idle"
    /\ sched' = [sched EXCEPT !.upc[p] = "lock"]
    /\ ScheduleStep

\* line 53: s.mu.Lock()
UpdateLock(p) ==
    /\ sched.upc[p] = "lock"
    /\ Exclusive(p)
    /\ sched' = [sched EXCEPT !.mu = p, !.upc[p] = "now"]
    /\ ScheduleStep

\* line 56, right-hand side: time.Now()
UpdateNow(p) ==
    /\ sched.upc[p] = "now"
    /\ sched' = [sched EXCEPT !.t[p] = now, !.upc[p] = "store"]
    /\ ScheduleStep

\* line 56: s.expireAt = <that reading>.Add(interval)
UpdateStore(p) ==
    /\ sched.upc[p] = "store"
    /\ sched' = [sched EXCEPT !.expireAt = Add(sched.t[p], sched.interval),
                              !.touched = sched.t[p], !.upc[p] = "unlock"]
    /\ ScheduleStep

\* line 54: defer s.mu.Unlock()
UpdateUnlock(p) ==
    /\ sched.upc[p] = "unlock"
    /\ sched' = [sched EXCEPT !.mu = 0, !.t[p] = 0, !.upc[p] = "idle"]
    /\ ScheduleStep

NextSchedule ==
    \/ NewSchedule
    \/ \E p \in Procs : CallUpdate(p)
    \/ \E p \in Procs : UpdateLock(p)
    \/ \E p \in Procs : UpdateNow(p)
    \/ \E p \in Procs : UpdateStore(p)
    \/ \E p \in Procs : UpdateUnlock(p)
    \/ Tick

SpecSchedule == InitSchedule /\ [][NextSchedule]_vars

\* ------------------------------------------- cohere client: Client.Chat
\* http.StatusOK
StatusOK == 200
\* the status codes an upstream response may carry, and the texts of a completion
Statuses == {StatusOK, 201, 204, 400, 401, 429, 500, 503}
Texts == {<<>>, <<"h">>, <<"h", "i">>}

\* what one call meets: whether json.Marshal, http.NewRequestWithContext and
\* httpClient.Do fail, the status of the response, whether io.ReadAll and
\* json.Unmarshal fail, and the text of the completion
ChatInputs ==
    [marshalFails : BOOLEAN, requestFails : BOOLEAN, sendFails : BOOLEAN, status : Statuses,
     readFails : BOOLEAN, parseFails : BOOLEAN, text : Texts]

NoError == [kind |-> "nil", status |-> 0]
Failure(k) == [kind |-> k, status |-> 0]
\* c.errMapper.Map(resp): the mapper's error for the response
Map(st) == [kind |-> "mapped", status |-> st]

NilResponse == [nil |-> TRUE, content |-> <<>>]
\* lines 138-160: the ChatResponse built from the completion
Response(text) == [nil |-> FALSE, content |-> text]

MapsServerErrorsOnly(st) == st >= 500

\* line 113: the second test of the status, inside the branch of line 100
MapsError(st) == st # StatusOK

NeverEmpty(content) == FALSE

\* line 41: len(chatResponse.ModelResponse.Message.Content) == 0
IsEmpty(content) == Len(content) = 0

InitChat ==
    /\ RouterInit
    /\ mgr = NoManager
    /\ sched = NoSchedule
    /\ \E x \in ChatInputs :
          chat = [pc |-> "call", in |-> x, dresp |-> NilResponse, derr |-> NoError,
                  resp |-> NilResponse, err |-> NoError]

ChatStep == UNCHANGED <<healthy, count, avg, expireAt, warmupIdx, now, pc, locals, ret, err,
                        t0, lastSel, yielded, startHealthy, picks, mgr, sched>>

\* doChatRequest returns (r, e) to Chat
DoReturn(r, e) == chat' = [chat EXCEPT !.dresp = r, !.derr = e, !.pc = "check"]

\* lines 34-36: createRequestSchema, then doChatRequest is entered
ChatCall ==
    /\ chat.pc = "call"
    /\ chat' = [chat EXCEPT !.pc = "marshal"]
    /\ ChatStep

\* lines 73-76
Marshal ==
    /\ chat.pc = "marshal"
    /\ IF chat.in.marshalFails THEN DoReturn(NilResponse, Failure("marshal"))
       ELSE chat' = [chat EXCEPT !.pc = "newRequest"]
    /\ ChatStep

\* lines 78-91
NewRequest ==
    /\ chat.pc = "newRequest"
    /\ IF chat.in.requestFails THEN DoReturn(NilResponse, Failure("newRequest"))
       ELSE chat' = [chat EXCEPT !.pc = "do"]
    /\ ChatStep

\* lines 93-98
Do ==
    /\ chat.pc = "do"
    /\ IF chat.in.sendFails THEN DoReturn(NilResponse, Failure("send"))
       ELSE chat' = [chat EXCEPT !.pc = "status"]
    /\ ChatStep

\* lines 100-119: the body is read for the log only
CheckStatus ==
    /\ chat.pc = "status"
    /\ IF chat.in.status # StatusOK
         THEN IF MapsError(chat.in.status)
                THEN DoReturn(NilResponse, Map(chat.in.status))
                ELSE DoReturn(NilResponse, Failure("ErrProviderUnavailable"))
         ELSE chat' = [chat EXCEPT !.pc = "read"]
    /\ ChatStep

\* lines 122-126
ReadBody ==
    /\ chat.pc = "read"
    /\ IF chat.in.readFails THEN DoReturn(NilResponse, Failure("read"))
       ELSE chat' = [chat EXCEPT !.pc = "unmarshal"]
    /\ ChatStep

\* lines 129-162
Unmarshal ==
    /\ chat.pc = "unmarshal"
    /\ IF chat.in.parseFails THEN DoReturn(NilResponse, Failure("parse"))
       ELSE DoReturn(Response(chat.in.text), NoError)
    /\ ChatStep

\* lines 37-45
ChatCheck ==
    /\ chat.pc = "check"
    /\ IF chat.derr # NoError
         THEN chat' = [chat EXCEPT !.resp = NilResponse, !.err = chat.derr, !.pc = "done"]
         ELSE IF IsEmpty(chat.dresp.content)
                THEN chat' = [chat EXCEPT !.resp = NilResponse,
                                          !.err = Failure("ErrEmptyResponse"), !.pc = "done"]
                ELSE chat' = [chat EXCEPT !.resp = chat.dresp, !.err = NoError, !.pc = "done"]
    /\ ChatStep

NextChat ==
    \/ ChatCall
    \/ Marshal
    \/ NewRequest
    \/ Do
    \/ CheckStatus
    \/ ReadBody
    \/ Unmarshal
    \/ ChatCheck

SpecChat == InitChat /\ [][NextChat]_vars

\* the request went out and a response came back with a status code
Answered == ~chat.in.marshalFails /\ ~chat.in.requestFails /\ ~chat.in.sendFails

\* ------------------------------------------------------ ServerManager
\* how many times the owner of the manager calls Start before Shutdown
MaxStarts == 3
Goroutines == 1 .. MaxStarts
\* what httpServer.Shutdown(ctx) may return: nil, or the context's error
ShutdownErrors == {"nil", "deadline exceeded"}

NoWait(n) == TRUE

\* sync.WaitGroup.Wait returns once the counter is zero
WaitOver(n) == n = 0

\* NewServerManager succeeded: an http server, a fresh wait group. Start and
\* Shutdown are called from the goroutine that owns the manager.
InitManager ==
    /\ RouterInit
    /\ chat = NoChat
    /\ sched = NoSchedule
    /\ mgr = [pc |-> "ready", wg |-> 0, starts |-> 0, run |-> [g \in Goroutines |-> "none"],
              serr |-> "nil", result |-> "nil"]

ManagerStep == UNCHANGED <<healthy, count, avg, expireAt, warmupIdx, now, pc, locals, ret, err,
                           t0, lastSel, yielded, startHealthy, picks, chat, sched>>

\* lines 29-30: mgr.shutdownWG.Add(1)
StartAdd ==
    /\ mgr.pc = "ready" /\ mgr.starts < MaxStarts
    /\ mgr' = [mgr EXCEPT !.wg = @ + 1, !.pc = "starting"]
    /\ ManagerStep

\* line 32: go func() {...}(), and Start returns
StartGo ==
    /\ mgr.pc = "starting"
    /\ mgr' = [mgr EXCEPT !.starts = @ + 1, !.run[mgr.starts + 1] = "spawned", !.pc = "ready"]
    /\ ManagerStep

\* line 36: the goroutine calls mgr.httpServer.Run()
RunBegin(g) ==
    /\ mgr.run[g] = "spawned"
    /\ mgr' = [mgr EXCEPT !.run[g] = "running"]
    /\ ManagerStep

\* line 36: Run returns, because it could not serve or because the server was
\* shut down; nothing in this code makes it return
RunReturn(g) ==
    /\ mgr.run[g] = "running"
    /\ mgr' = [mgr EXCEPT !.run[g] = "returned"]
    /\ ManagerStep

\* lines 38 and 33: println(err), then the deferred mgr.shutdownWG.Done()
RunDone(g) ==
    /\ mgr.run[g] = "returned"
    /\ mgr' = [mgr EXCEPT !.run[g] = "done", !.wg = @ - 1]
    /\ ManagerStep

\* lines 44-47: Shutdown is called and enters mgr.httpServer.Shutdown(ctx)
ShutdownCall ==
    /\ mgr.pc = "ready"
    /\ mgr' = [mgr EXCEPT !.pc = "shutdown"]
    /\ ManagerStep

\* line 47: err = mgr.httpServer.Shutdown(ctx)
HttpShutdown(e) ==
    /\ mgr.pc = "shutdown"
    /\ mgr' = [mgr EXCEPT !.serr = e, !.pc = "wait"]
    /\ ManagerStep

\* lines 50-52: mgr.shutdownWG.Wait(), return err
WaitReturn ==
    /\ mgr.pc = "wait"
    /\ WaitOver(mgr.wg)
    /\ mgr' = [mgr EXCEPT !.result = mgr.serr, !.pc = "returned"]
    /\ ManagerStep

NextManager ==
    \/ StartAdd
    \/ StartGo
    \/ \E g \in Goroutines : RunBegin(g)
    \/ \E g \in Goroutines : RunReturn(g)
    \/ \E g \in Goroutines : RunDone(g)
    \/ ShutdownCall
    \/ \E e \in ShutdownErrors : HttpShutdown(e)
    \/ WaitReturn

SpecManager == InitManager /\ [][NextManager]_vars

\* the goroutines Start has launched
Launched == 1 .. mgr.starts

\* ------------------------------------------------------- specifications
\* One request at a time: no other goroutine acts while Next runs; only the
\* clock moves.
Next ==
    \/ StartRequest(1)
    \/ NextStep(1)
    \/ \E x \in Latencies : Success(1, x, WarmupSamples)
    \/ TransientFail(1)
    \/ Abort(1)
    \/ GiveUp(1)
    \/ \E m \in Models : Quiet /\ HealthCheck(m)
    \/ Tick

Spec == Init /\ [][Next]_vars

\* Cold start, one request at a time, every call succeeding.
NextCold ==
    \/ StartRequest(1)
    \/ NextStep(1)
    \/ \E x \in Latencies : Success(1, x, MaxSamples)
    \/ Tick

SpecCold == Init /\ [][NextCold]_vars

\* Cold start, concurrent requests, every call succeeding.
NextColdConc ==
    \/ \E p \in Procs : StartRequest(p)
    \/ \E p \in Procs : NextStep(p)
    \/ \E p \in Procs : \E x \in Latencies : Success(p, x, MaxSamples)
    \/ Tick

SpecColdConc == Init /\ [][NextColdConc]_vars

\* The router once every model has been warmed up by WarmupSamples successful
\* calls each, some of the models marked unhealthy since.
InitSteady ==
    /\ healthy \in [Models -> BOOLEAN]
    /\ count = [m \in Models |-> WarmupSamples]
    /\ avg \in [Models -> Latencies]
    /\ now = 0
    /\ expireAt = [m \in Models |-> Deadline(0)]
    /\ warmupIdx = WarmupSamples * NumModels
    /\ pc = [p \in Procs |-> "idle"]
    /\ cold = [p \in Procs |-> <<>>]
    /\ idx = [p \in Procs |-> 0]
    /\ i = [p \in Procs |-> 0]
    /\ nxt = [p \in Procs |-> Nil]
    /\ ret = [p \in Procs |-> Nil]
    /\ err = [p \in Procs |-> "nil"]
    /\ t0 = [p \in Procs |-> 0]
    /\ yielded = [p \in Procs |-> {}]
    /\ lastSel = [m \in Models |-> 0]
    /\ startHealthy = [p \in Procs |-> 0]
    /\ picks = [m \in Models |-> 0]
    /\ Elsewhere

\* the latency branch of Next
ScanStep(p) ==
    \/ GetCold(p)
    \/ Scan127(p)
    \/ Scan134(p)
    \/ Finish(p)

\* Warmed-up models, concurrent requests, no call failing.
NextSteadyConc ==
    \/ \E p \in Procs : StartRequest(p)
    \/ \E p \in Procs : ScanStep(p)
    \/ \E p \in Procs : \E x \in Latencies : Success(p, x, MaxSamples)
    \/ \E p \in Procs : Abort(p)
    \/ \E p \in Procs : GiveUp(p)
    \/ Tick

SpecSteadyConc == InitSteady /\ [][NextSteadyConc]_vars

\* Warmed-up models, one request at a time, no call failing, a longer run of
\* the clock.
NextSteady ==
    \/ StartRequest(1)
    \/ ScanStep(1)
    \/ \E x \in Latencies : Success(1, x, MaxSamples)
    \/ Abort(1)
    \/ GiveUp(1)
    \/ TickLong

SpecSteady == InitSteady /\ [][NextSteady]_vars

\* Warmed-up models, one request after another, every attempt answered with a
\* transient error (503), the health check marking models healthy again at any
\* moment, during a Next call included.
NextAllFail ==
    \/ StartRequest(1)
    \/ ScanStep(1)
    \/ TransientFail(1)
    \/ GiveUp(1)
    \/ \E m \in Models : HealthCheck(m)
    \/ Tick

SpecAllFail == InitSteady /\ [][NextAllFail]_vars

\* Cold start, concurrent requests, every attempt failing with a non-retryable
\* error: no sample is observed and no health changes, the cold set stays as
\* it is, and every Next call takes the warm-up branch.
NextWarmConc ==
    \/ \E p \in Procs : StartRequest(p)
    \/ \E p \in Procs : GetCold(p)
    \/ \E p \in Procs : WarmAdd(p)
    \/ \E p \in Procs : WarmUpdateCounted(p)
    \/ \E p \in Procs : Abort(p)
    \/ Tick

SpecWarmConc == Init /\ [][NextWarmConc]_vars

\* ------------------------------------------------------------ vocabulary
\* the step on which the Next call of request p returns
Returns(p) == pc[p] \in {"warmUpdate", "finish"} /\ pc'[p] \in {"dispatch", "noModel"}

Healthy == {m \in Models : healthy[m]}
NoColdModel == \A m \in Healthy : WarmedUp(m)

\* the healthy models that come before m in the order (expire-at, configured position)
Ahead(m) ==
    {k \in Healthy : expireAt[k] < expireAt[m] \/ (expireAt[k] = expireAt[m] /\ k < m)}

\* the samples observed so far; with no call failing, the requests completed
RECURSIVE SamplesFrom(_)
SamplesFrom(m) == IF m > NumModels THEN 0 ELSE count[m] + SamplesFrom(m + 1)
Completed == SamplesFrom(1)

InWarmup(p) == pc[p] \in {"warmAdd", "warmUpdate"}
InSelection(p) == pc[p] \in {"scan127", "scan134", "finish"}

\* ---------------------------------------------------------------- claims
\* C10: Next returns ErrNoHealthyModels if and only if no model is healthy; with
\* a healthy model it returns a model and a nil error, and with
\* ErrNoHealthyModels the returned model is nil.
C10_ErrorIffNoHealthy ==
    [][\A p \in Procs : Returns(p) =>
          /\ (err'[p] = "ErrNoHealthyModels") <=> (Healthy = {})
          /\ (Healthy # {}) => (err'[p] = "nil" /\ ret'[p] \in Models)
          /\ (err'[p] = "ErrNoHealthyModels") => (ret'[p] = Nil)]_vars

C10_Witness ==
    \E p \in Procs : pc[p] = "noModel" /\ err[p] = "ErrNoHealthyModels" /\ Healthy = {}

\* C3: whenever a healthy model is not warmed up, Next takes the warm-up branch
\* and returns cold[c mod |cold|], cold being the healthy non-warmed models in
\* configured order and c the cursor before the call; the call increments the
\* cursor by exactly 1 and touches the returned model's schedule, whatever the
\* latencies and expiries.
C3_WarmupRoundRobin ==
    [][\A p \in Procs :
          /\ (pc[p] = "getCold" /\ pc'[p] # "getCold") =>
                ((\E m \in Models : healthy[m] /\ ~WarmedUp(m)) <=> (pc'[p] = "warmAdd"))
          /\ (pc[p] = "warmAdd" /\ pc'[p] # "warmAdd") => (warmupIdx' = warmupIdx + 1)
          /\ (pc[p] = "warmUpdate" /\ Returns(p)) =>
                LET cs == SelectSeq([k \in 1 .. NumModels |-> k],
                                    LAMBDA m : healthy[m] /\ count[m] < WarmupSamples)
                    c == warmupIdx - 1
                IN  /\ cs # <<>>
                    /\ ret'[p] = cs[(c % Len(cs)) + 1]
                    /\ err'[p] = "nil"
                    /\ warmupIdx' = warmupIdx
                    /\ expireAt'[ret'[p]] = now + Interval
          /\ (pc[p] = "finish" /\ Returns(p)) => (warmupIdx' = warmupIdx /\ NoColdModel)]_vars

\* the second request of a cold start: models 2 and 3 are cold, the cursor is 1
\* and the call returned cold[1 mod 2], model 3
C3_Witness ==
    \E p \in Procs :
        /\ pc[p] = "dispatch" /\ ret[p] = 3 /\ warmupIdx = 2
        /\ WarmedUp(1) /\ ~WarmedUp(2) /\ ~WarmedUp(3) /\ healthy[2] /\ healthy[3]
        /\ expireAt[3] = now + Interval

\* C4: with no healthy model cold and a healthy model's schedule expired when
\* the call begins, Next returns a healthy expired model whose expire-at is the
\* earliest; an expired model wins over every non-expired one whatever the
\* latencies and the configured order.
C4_EarliestExpiredWins ==
    [][\A p \in Procs :
          (/\ pc[p] = "finish" /\ Returns(p)
           /\ NoColdModel
           /\ \E m \in Healthy : t0[p] > expireAt[m])
          => /\ ret'[p] \in Healthy
             /\ t0[p] > expireAt[ret'[p]]
             /\ \A k \in Healthy : expireAt[ret'[p]] <= expireAt[k]]_vars

\* the scan has settled on an expired model that comes later in the configured
\* order and is slower than a healthy model that is not expired
C4_Witness ==
    \E p \in Procs : \E k \in Healthy :
        /\ pc[p] = "finish" /\ nxt[p] \in Healthy /\ NoColdModel
        /\ t0[p] > expireAt[nxt[p]]
        /\ ~Expired(k) /\ k < nxt[p] /\ Value(k) < Value(nxt[p])
        /\ \E j \in Healthy : j # nxt[p] /\ t0[p] > expireAt[j] /\ expireAt[j] > expireAt[nxt[p]]

\* C5: with every healthy model warmed up and no healthy schedule expired, Next
\* returns a healthy model of minimum latency, the earliest in configured order
\* among those of minimum latency.
C5_SteadyStateOptimal ==
    [][\A p \in Procs :
          (/\ pc[p] = "finish" /\ Returns(p)
           /\ Healthy # {}
           /\ NoColdModel
           /\ \A m \in Healthy : ~(now > expireAt[m]))
          => /\ ret'[p] \in Healthy
             /\ \A k \in Healthy : avg[ret'[p]] <= avg[k]
             /\ \A k \in Healthy : (k < ret'[p]) => (avg[k] > avg[ret'[p]])]_vars

\* three healthy warmed-up models, none expired, the first the slowest and the
\* other two tied for the minimum: the scan settled on the second
C5_Witness ==
    \E p \in Procs :
        /\ pc[p] = "finish" /\ nxt[p] = 2
        /\ Healthy = Models /\ NoColdModel
        /\ \A m \in Models : ~Expired(m)
        /\ avg[1] > avg[2] /\ avg[2] = avg[3]

\* C1: within one request Next never yields the same model twice: a model
\* already yielded to the request is excluded from its later Next calls.
C1_NoModelTwice ==
    [][\A p \in Procs : (Returns(p) /\ ret'[p] # Nil) => (ret'[p] \notin yielded[p])]_vars

\* C8: with all models healthy and warmed up, a model whose schedule is expired
\* when a Next call begins is returned by that call, or the call returns a model
\* ahead of it (earlier expire-at, or the same and earlier in the order) and
\* moves that model behind it: fewer than |models| models are ever ahead, so
\* the expired model is returned within |models| calls.
C8_ExpiryForcesProbe ==
    [][\A p \in Procs : \A m \in Models :
          (/\ pc[p] = "finish" /\ Returns(p)
           /\ Healthy = Models /\ NoColdModel
           /\ t0[p] > expireAt[m])
          => /\ ret'[p] \in Models
             /\ Cardinality(Ahead(m)) < NumModels
             /\ (Ahead(m) = {}) => (ret'[p] = m)
             /\ (ret'[p] # m) =>
                   /\ ret'[p] \in Ahead(m)
                   /\ Ahead(m)' = Ahead(m) \ {ret'[p]}
                   /\ \A k \in Models : (now > expireAt[k]) => (expireAt'[ret'[p]] > expireAt[k])]_vars

\* all three models healthy, warmed up and expired at different times: the scan
\* settled on the earliest, and the latest of them has two models ahead of it
C8_Witness ==
    \E p \in Procs : \E m \in Models :
        /\ pc[p] = "finish" /\ Healthy = Models /\ NoColdModel
        /\ \A k \in Models : t0[p] > expireAt[k]
        /\ Cardinality(Ahead(m)) = 2
        /\ nxt[p] \in Ahead(m)

\* C2 as claimed: from a cold start with every request succeeding, the first
\* three requests go to models 1, 2, 3 in this order and the fourth request is
\* chosen by latency-based selection.
C2_ConfiguredOrderThenLatency ==
    /\ (Completed = 1) => (count = <<1, 0, 0>>)
    /\ (Completed = 2) => (count = <<1, 1, 0>>)
    /\ (Completed = 3) => (count = <<1, 1, 1>>)
    /\ \A p \in Procs : (Completed = 3) => ~InWarmup(p)

\* C2 as amended: the first three requests go to the three models once each,
\* model 1 first, then 2 and 3 in configured order when warm-up-samples >= 2
\* and 3 before 2 when it is 1; requests take the warm-up branch until
\* warm-up-samples * |models| of them have completed and latency-based
\* selection from then on, so the fourth is latency-based only when
\* warm-up-samples = 1.
C2_ThreeModelsOnceEach ==
    /\ (Completed = 1) => (count = <<1, 0, 0>>)
    /\ (Completed = 2) => (count = IF WarmupSamples = 1 THEN <<1, 0, 1>> ELSE <<1, 1, 0>>)
    /\ (Completed = 3) => (count = <<1, 1, 1>>)
    /\ \A p \in Procs : InWarmup(p) => (Completed < WarmupSamples * NumModels)
    /\ \A p \in Procs : InSelection(p) => (Completed >= WarmupSamples * NumModels)

\* the request after the first three is in latency-based selection
C2_Witness ==
    \E p \in Procs : Completed = 3 /\ count = <<1, 1, 1>> /\ pc[p] = "finish" /\ nxt[p] # Nil

\* C6: from a cold start with all models healthy, once warm-up-samples * |models|
\* requests have succeeded every model is warmed up, under every interleaving
\* of concurrent requests.
C6_WarmupComplete ==
    (Completed >= WarmupSamples * NumModels) => (\A m \in Models : WarmedUp(m))

\* C9: with exactly two healthy models, both warmed up, Next returns the one of
\* higher latency only when that model's schedule is expired at the moment it
\* is returned and touched, concurrent Next calls included.
C9_SlowOnlyWhenExpired ==
    [][\A p \in Procs : \A m1, m2 \in Models :
          (/\ Healthy = {m1, m2} /\ m1 # m2
           /\ WarmedUp(m1) /\ WarmedUp(m2)
           /\ avg[m1] < avg[m2]
           /\ pc[p] = "finish" /\ Returns(p)
           /\ ret'[p] = m2)
          => (now > expireAt[m2])]_vars

C11_UnhealthySkipped ==
    [][\A p \in Procs : (Returns(p) /\ ret'[p] # Nil) => healthy[ret'[p]]]_vars

\* the scan settled on a healthy model although an unhealthy one is expired and
\* has a lower latency
C11_Witness ==
    \E p \in Procs : \E u \in Models :
        /\ pc[p] = "finish" /\ nxt[p] \in Healthy
        /\ ~healthy[u] /\ WarmedUp(u) /\ Expired(u) /\ avg[u] < avg[nxt[p]]

\* C12: with every attempt answered by a transient error, a request's dispatch
\* loop attempts no model twice, and when it ends with all-providers-failed it
\* has made exactly as many attempts as there were healthy models when the
\* request started, whatever other requests and the health check do meanwhile.
C12_OneAttemptPerHealthyModel ==
    [][\A p \in Procs :
          /\ (Returns(p) /\ ret'[p] # Nil) => (ret'[p] \notin yielded[p])
          /\ (Returns(p) /\ ret'[p] = Nil) => (Cardinality(yielded[p]) = startHealthy[p])]_vars

\* C13 as claimed: immediately after a schedule is touched (NewSchedule or
\* Update) its expire-at is strictly later than the instant of the touch, and
\* Expired() evaluated at that instant is false, for every configured
\* latency-update-interval.
C13_FutureAfterTouch ==
    sched.made => (sched.expireAt > sched.touched /\ ~SchedExpired(sched.touched))

\* C13 as amended: so it is for every positive interval; with the interval 0
\* expire-at is the instant of the touch itself (Expired() false there), and
\* with a negative interval the schedule is expired at the instant of its touch.
C13_FutureAfterTouchPositive ==
    sched.made =>
        /\ (sched.interval > 0) => (sched.expireAt > sched.touched /\ ~SchedExpired(sched.touched))
        /\ (sched.interval = 0) => (sched.expireAt = sched.touched /\ ~SchedExpired(sched.touched))
        /\ (sched.interval < 0) => SchedExpired(sched.touched)

\* an Update has just stored a deadline computed from a later clock reading
\* than the construction's, with a positive interval
C13_Witness ==
    /\ sched.made /\ sched.interval > 0 /\ sched.touched > 0
    /\ \E p \in Procs : sched.upc[p] = "unlock"

\* C18: a schedule's expire-at never decreases, under any interleaving of
\* concurrent Update calls: the clock is read with the exclusive lock held, so
\* an Update serialized later never stores an earlier deadline.
C18_ExpireAtMonotone ==
    [][(sched.made /\ sched'.made) => (sched'.expireAt >= sched.expireAt)]_vars

\* two Update calls overlap: one holds the lock with a clock reading taken
\* after the deadline in place was computed, the other waits for the lock
C18_Witness ==
    \E p, q \in Procs :
        /\ sched.made /\ sched.interval >= 0
        /\ sched.upc[p] = "store" /\ sched.upc[q] = "lock"
        /\ sched.t[p] > sched.touched
        /\ sched.touched > 0

C17_FrameOfNext ==
    [][\A p \in Procs :
          InNext(p) =>
              /\ healthy' = healthy /\ count' = count /\ avg' = avg
              /\ (pc[p] # "warmAdd") => (warmupIdx' = warmupIdx)
              /\ ~Returns(p) => (expireAt' = expireAt)
              /\ (Returns(p) /\ ret'[p] # Nil) =>
                    \A k \in Models \ {ret'[p]} : expireAt'[k] = expireAt[k]
              /\ (Returns(p) /\ ret'[p] = Nil) =>
                    (err'[p] = "ErrNoHealthyModels" /\ expireAt' = expireAt)]_vars

\* the latency branch has returned a model and moved its expire-at, another
\* schedule keeping its earlier expire-at and the cursor its value
C17_Witness ==
    \E p \in Procs : \E k \in Models :
        /\ pc[p] = "dispatch" /\ NoColdModel /\ warmupIdx = MaxCursor
        /\ expireAt[ret[p]] = now + Interval
        /\ expireAt[k] < expireAt[ret[p]]

C15_ExactlyOneOutcome ==
    (chat.pc = "done") =>
        /\ (chat.resp = NilResponse) <=> (chat.err # NoError)
        /\ (/\ Answered /\ chat.in.status = StatusOK
            /\ ~chat.in.readFails /\ ~chat.in.parseFails
            /\ Len(chat.in.text) = 0)
           => (chat.err = Failure("ErrEmptyResponse") /\ chat.resp = NilResponse)
        /\ (chat.err = NoError) => (~chat.resp.nil /\ Len(chat.resp.content) > 0)

\* a 200 with an empty completion text has ended in ErrEmptyResponse
C15_Witness ==
    /\ chat.pc = "done" /\ Answered /\ chat.in.status = StatusOK
    /\ Len(chat.in.text) = 0 /\ chat.err = Failure("ErrEmptyResponse")

\* C19: Shutdown returns only after every goroutine launched by Start has
\* finished, hence after httpServer.Run has returned, and it returns the error
\* of httpServer.Shutdown; if Start was never called Shutdown is not held at the
\* wait group; and while a Run has not returned, whatever httpServer.Shutdown
\* returned, Shutdown stays blocked in Wait, for ever if Run never returns.
C19_ShutdownWaitsForRun ==
    /\ (mgr.pc = "returned") =>
          /\ \A g \in Launched : mgr.run[g] = "done"
          /\ mgr.result = mgr.serr
    /\ (mgr.pc = "wait" /\ mgr.starts = 0) => ENABLED WaitReturn
    /\ (mgr.pc = "wait" /\ \E g \in Launched : mgr.run[g] \in {"spawned", "running"})
          => ~ENABLED WaitReturn

\* httpServer.Shutdown has returned the context's error and Shutdown is held in
\* Wait: one Run has returned, the other has not
C19_Witness ==
    /\ mgr.pc = "wait" /\ mgr.serr = "deadline exceeded"
    /\ mgr.run[1] = "done" /\ mgr.run[2] = "running"
====
